---- MODULE Spec2Model ----
(* Model of src/src/render.rs: the three rendering traits (RenderOnce,       *)
(* RenderMut, Render), their reference and Box adapters, the closure-based   *)
(* Renderer and the Raw / &str / String leaves, executed as a call stack of  *)
(* impl-method frames writing into one TemplateBuilder sink.                 *)
EXTENDS Naturals, Sequences, FiniteSets

VARIABLES prod, alive, count, sink, stack, status, ret, last, call, run, ncalls, writer, err, result

vars == <<prod, alive, count, sink, stack, status, ret, last, call, run, ncalls, writer, err, result>>

(* ------------------------------ bounds ------------------------------ *)

\* longest text held by a leaf producer
MaxLen == 2
\* deepest nesting of Box handles around a leaf
MaxNest == 2
\* number of calls the generator issues on the root producer
MaxCalls == 3
\* largest expected_size handed to __new_renderer
MaxHint == 1
\* frames the call stack may hold: more than any chain of MaxNest handles needs
MaxStack == 2 * MaxNest + 8

(* ------------------------------- text ------------------------------- *)

Alphabet == {"a", "<", ">", "&", "\""}

RECURSIVE TextsOfLen(_)
TextsOfLen(n) ==
  IF n = 0 THEN {<<>>}
  ELSE {<<c>> \o t : c \in Alphabet, t \in TextsOfLen(n - 1)}

Texts == UNION {TextsOfLen(n) : n \in 0..MaxLen}

\* texts written by the closures of the generator (tests: "test", "abcde")
ClosureTexts == {<<"a">>, <<"<", "a">>}

EscapeChar(c) ==
  CASE c = "&"  -> <<"&", "a", "m", "p", ";">>
    [] c = "<"  -> <<"&", "l", "t", ";">>
    [] c = ">"  -> <<"&", "g", "t", ";">>
    [] c = "\"" -> <<"&", "q", "u", "o", "t", ";">>
    [] OTHER    -> <<c>>

RECURSIVE Escape(_)
Escape(t) == IF t = <<>> THEN <<>> ELSE EscapeChar(Head(t)) \o Escape(Tail(t))

Digit(n) == <<"0", "1", "2", "3", "4", "5", "6", "7", "8", "9">>[(n % 10) + 1]

(* ----------------------------- producers ---------------------------- *)
(* A producer is a sequence of layers, outermost first: references and Box  *)
(* handles over one leaf. Dereferencing drops the outermost layer.          *)

Layer(k, t, f, n) == [kind |-> k, text |-> t, fn |-> f, expected_size |-> n]

Str(t) == <<Layer("str", t, "none", 0)>>
String(t) == <<Layer("String", t, "none", 0)>>
Raw(t) == <<Layer("Raw", t, "none", 0)>>
\* __new_renderer(expected_size, f)
Renderer(f, t, n) == <<Layer("Renderer", t, f, n)>>

Kind(p) == Head(p).kind
Deref(p) == Tail(p)
Borrow(p) == <<Layer("Ref", <<>>, "none", 0)>> \o p
BorrowMut(p) == <<Layer("RefMut", <<>>, "none", 0)>> \o p
Box(k, p) == <<Layer(k, <<>>, "none", 0)>> \o p

\* the closures: Lit and Twice are Fn, Count is FnMut, Once is FnOnce
FnKinds == {"Lit", "Twice", "Count", "Once"}

\* the traits the type of p implements
Traits(p) ==
  CASE Kind(p) \in {"str", "String", "Raw", "BoxRender"} -> {"RenderOnce", "RenderMut", "Render"}
    [] Kind(p) = "BoxRenderMut" -> {"RenderOnce", "RenderMut"}
    [] Kind(p) \in {"BoxRenderBox", "Ref", "RefMut"} -> {"RenderOnce"}
    [] Kind(p) = "Renderer" ->
         IF Head(p).fn \in {"Lit", "Twice"} THEN {"RenderOnce", "RenderMut", "Render"}
         ELSE IF Head(p).fn = "Count" THEN {"RenderOnce", "RenderMut"}
         ELSE {"RenderOnce"}

\* the text "<b>"
BoldTag == <<"<", "b", ">">>

\* the texts of the leaves: every short text, and the escaped forms of the
\* one-character texts (the output of a finished sub-document)
LeafTexts == Texts \cup {Escape(t) : t \in TextsOfLen(1)} \cup {BoldTag}

Leaves ==
  {Str(t) : t \in LeafTexts} \cup {String(t) : t \in LeafTexts} \cup {Raw(t) : t \in LeafTexts}
    \cup {Renderer(f, t, n) : f \in FnKinds, t \in ClosureTexts, n \in 0..MaxHint}

BoxTrait(k) ==
  CASE k = "BoxRenderBox" -> "RenderOnce"
    [] k = "BoxRenderMut" -> "RenderMut"
    [] k = "BoxRender" -> "Render"

BoxKinds == {"BoxRenderBox", "BoxRenderMut", "BoxRender"}

RECURSIVE Roots(_)
Roots(n) ==
  IF n = 0 THEN Leaves
  ELSE LET R == Roots(n - 1)
       IN R \cup {Box(x[1], x[2]) : x \in {y \in BoxKinds \X R : BoxTrait(y[1]) \in Traits(y[2])}}

(* ------------------------- frames and operations ---------------------- *)
(* A frame is one activation of an impl method: m is the method, self the  *)
(* value Self it was dispatched on, todo what is left of its body.          *)

NoText == <<>>
NoProd == <<>>

Op(o, m, p, t, v) == [op |-> o, m |-> m, self |-> p, text |-> t, val |-> v]

\* Trait::m(arg, tmpl) with a receiver &Self / &mut Self: Self is what arg borrows
UFCS(m, arg) == Op("call", m, Deref(arg), NoText, 0)
\* RenderBox::render_box(b, tmpl), receiver Box<Self>: Self is what b owns
UFCSBox(m, b) == Op("call", m, Deref(b), NoText, 0)
\* place.m(..): the method of the place's own type
Method(m, place) == Op("call", m, place, NoText, 0)
\* (self.renderer)(tmpl)
Invoke(p) == Op("call", "closure", p, NoText, 0)
\* tmpl.write_raw(text), tmpl.write_str(text)
WriteRaw(t) == Op("write_raw", "", NoProd, t, 0)
WriteStr(t) == Op("write_str", "", NoProd, t, 0)
\* the value a size_hint returns
Value(n) == Op("value", "", NoProd, NoText, n)
\* the fmt::Result a stringification returns
Result == Op("result", "", NoProd, NoText, 0)

Frame(m, p) == [m |-> m, self |-> p, todo |-> <<>>, fresh |-> TRUE, base |-> Len(sink), cnt0 |-> count, ncall |-> 0]

(* ---- impl bodies, one per impl method of render.rs; self is the       *)
(* ---- receiver expression of the Rust method                            *)

\* impl RenderOnce for &'a mut T where T: RenderMut
RefMut_render_once_twice(self) == <<UFCS("render_mut", self), UFCS("render_mut", self)>>
RefMut_render_once(self) == <<UFCS("render_mut", self)>>
RefMut_size_hint(self) == <<Method("size_hint", Deref(Deref(self)))>>

\* impl RenderOnce for &'a T where T: Render
Ref_render_once_as_mut(self) == <<UFCS("render_mut", self)>>
Ref_render_once_twice(self) == <<UFCS("render", self), UFCS("render", self)>>
Ref_render_once(self) == <<UFCS("render", self)>>
Ref_size_hint(self) == <<Method("size_hint", Deref(Deref(self)))>>

\* impl<T> RenderBox for T where T: RenderOnce
T_render_box(self) == <<Method("render_once", Deref(self))>>
T_size_hint_box(self) == <<UFCS("size_hint", self)>>

\* impl RenderOnce for Box<RenderBox>
BoxRenderBox_render_once(self) == <<UFCSBox("render_box", self)>>
BoxRenderBox_size_hint(self) == <<UFCS("size_hint_box", self)>>

\* impl RenderOnce for Box<RenderMut>, impl RenderMut for Box<RenderMut>
BoxRenderMut_render_once(self) == <<UFCS("render_mut", BorrowMut(Deref(self)))>>
BoxRenderMut_size_hint(self) == <<UFCS("size_hint", Borrow(Deref(Deref(self))))>>
BoxRenderMut_render_mut(self) == <<UFCS("render_mut", BorrowMut(Deref(self)))>>

\* impl RenderOnce / RenderMut / Render for Box<Render>
BoxRender_render_once(self) == <<UFCS("render", Borrow(Deref(self)))>>
BoxRender_size_hint(self) == <<UFCS("size_hint", Borrow(Deref(Deref(self))))>>
BoxRender_render_mut(self) == <<UFCS("render", Borrow(Deref(self)))>>
BoxRender_render(self) == <<UFCS("render", Borrow(Deref(self)))>>

\* impl RenderOnce / RenderMut / Render for Renderer<F>
Renderer_render_once_sized(self) == IF Head(self).expected_size = 0 THEN <<Value(0)>> ELSE <<Invoke(self)>>
Renderer_render_once(self) == <<Invoke(self)>>
Renderer_size_hint(self) == <<Value(Head(Deref(self)).expected_size)>>
Renderer_render_mut(self) == <<Invoke(Deref(self))>>
Renderer_render_twice(self) == <<Invoke(Deref(self)), Invoke(Deref(self))>>
Renderer_render(self) == <<Invoke(Deref(self))>>

\* impl fmt::Display for Renderer<F> where Renderer<F>: Render
Display_fmt(self) == <<Method("write_to_fmt", self)>>

\* Template::write_to_fmt for &Renderer<F>: render once into a builder over the
\* writer, then report the builder's failure, if any
Template_write_to_fmt(self) == <<Method("render_once", self), Result>>

\* impl RenderOnce / RenderMut / Render for Raw<S>
Raw_render_once(self) == <<WriteRaw(Head(self).text)>>
Raw_size_hint(self) == <<Value(Len(Head(Deref(self)).text))>>
Raw_render_mut(self) == <<WriteRaw(Head(Deref(self)).text)>>
Raw_render(self) == <<WriteRaw(Head(Deref(self)).text)>>

\* impl RenderOnce / RenderMut / Render for &'a str
str_render_once(self) == <<WriteStr(Head(self).text)>>
str_size_hint(self) == <<Value(Len(Head(Deref(self)).text))>>
str_render_mut(self) == <<WriteStr(Head(Deref(self)).text)>>
str_render_raw(self) == <<WriteRaw(Head(Deref(self)).text)>>
str_render(self) == <<WriteStr(Head(Deref(self)).text)>>

\* impl RenderOnce / RenderMut / Render for String
String_render_once(self) == <<WriteStr(Head(self).text)>>
String_size_hint(self) == <<Value(Len(Head(Deref(self)).text))>>
String_render_mut(self) == <<WriteStr(Head(Deref(self)).text)>>
String_render(self) == <<WriteStr(Head(Deref(self)).text)>>

\* the closure a Renderer holds, called with the sink: tmpl << x is x.render_once(tmpl)
Closure(self, n) ==
  LET r == Head(self)
  IN CASE r.fn = "Lit" -> <<Method("render_once", Str(r.text))>>
       [] r.fn = "Once" -> <<Method("render_once", String(r.text))>>
       [] r.fn = "Count" -> <<Method("render_once", Str(<<Digit(n)>>))>>
       [] r.fn = "Twice" ->
            LET sub == Renderer("Lit", r.text, Len(r.text))
            IN <<Method("render_once", Borrow(sub)), Method("render_once", Borrow(sub))>>

\* what the closure leaves in the state it captured
ClosureNext(self, n) == IF Head(self).fn = "Count" THEN n + 1 ELSE n

\* the receiver expression `self` of method m dispatched on p
Receiver(m, p) ==
  CASE m = "render_mut" -> BorrowMut(p)
    [] m \in {"render", "size_hint", "size_hint_box", "fmt"} -> Borrow(p)
    [] m = "render_box" -> Box("Box", p)
    [] OTHER -> p

(* ------------------------------ the sink ------------------------------ *)

\* the writer behind the sink (for Display the fmt::Formatter): its write_str
\* fails once the writer is broken
Formatter_write_str(text) == IF writer = "ok" THEN "Ok" ELSE "Err"

\* impl fmt::Write for Adapter: write_str hands the text to the Formatter
Adapter_write_str_swallow(text) == "Ok"
Adapter_write_str(text) == Formatter_write_str(text)

\* what the builder's writer answers: Display::fmt puts the Adapter in front
WriterResult(text) == IF call.m = "fmt" THEN Adapter_write_str(text) ELSE Formatter_write_str(text)

\* TemplateBuilder::write_raw / write_str: hand the text to the writer once and
\* keep the first failure it signals; a failed builder writes no more
SinkWrite(text) ==
  IF err # "none" THEN UNCHANGED <<sink, err, writer>>
  ELSE /\ sink' = IF writer = "ok" THEN sink \o text ELSE sink
       /\ writer' = IF writer = "ok" THEN "ok" ELSE "failed"
       /\ err' = IF WriterResult(text) = "Ok" THEN "none" ELSE "Err"

(* ----------------------------- the machine ---------------------------- *)
(* status is "idle" between the calls of the generator, "running" during    *)
(* one, and "overflow" once a call chain has used up the stack: a call that *)
(* recurses without bound never returns and the process ends there.         *)

Top == stack[Len(stack)]

NoLast == [m |-> "", self |-> NoProd, out |-> NoText, cnt0 |-> 0, cnt1 |-> 0, ncall |-> 0, depth |-> 0]
NoCall == [m |-> "", via |-> "", sink0 |-> NoText, count0 |-> 0]

At(m, k) == status = "running" /\ stack # <<>> /\ Top.fresh /\ Top.m = m /\ Kind(Top.self) = k

AtAny(m) == status = "running" /\ stack # <<>> /\ Top.fresh /\ Top.m = m

\* the running frame performs op; rest is what remains of its body
Do(op, rest) ==
  LET me == [Top EXCEPT !.fresh = FALSE, !.todo = rest, !.ncall = @ + (IF op.op = "call" THEN 1 ELSE 0)]
      stk == [stack EXCEPT ![Len(stack)] = me]
  IN CASE op.op = "call" ->
            /\ IF Len(stack) >= MaxStack
                 THEN status' = "overflow" /\ stack' = stk
                 ELSE status' = status /\ stack' = Append(stk, Frame(op.m, op.self))
            /\ UNCHANGED <<sink, err, writer, ret, result>>
       [] op.op = "write_raw" ->
            /\ SinkWrite(op.text)
            /\ stack' = stk
            /\ UNCHANGED <<status, ret, result>>
       [] op.op = "write_str" ->
            /\ SinkWrite(Escape(op.text))
            /\ stack' = stk
            /\ UNCHANGED <<status, ret, result>>
       [] op.op = "value" ->
            /\ ret' = op.val
            /\ stack' = stk
            /\ UNCHANGED <<status, sink, err, writer, result>>
       [] op.op = "result" ->
            /\ result' = IF err = "none" THEN "Ok" ELSE "Err"
            /\ stack' = stk
            /\ UNCHANGED <<status, sink, err, writer, ret>>

Run(body) ==
  /\ Do(Head(body), Tail(body))
  /\ UNCHANGED <<prod, alive, count, last, call, run, ncalls>>

Self == Receiver(Top.m, Top.self)

Step_RefMut_render_once == At("render_once", "RefMut") /\ Run(RefMut_render_once(Self))
Step_RefMut_size_hint == At("size_hint", "RefMut") /\ Run(RefMut_size_hint(Self))
Step_Ref_render_once == At("render_once", "Ref") /\ Run(Ref_render_once(Self))
Step_Ref_size_hint == At("size_hint", "Ref") /\ Run(Ref_size_hint(Self))
Step_T_render_box == AtAny("render_box") /\ Run(T_render_box(Self))
Step_T_size_hint_box == AtAny("size_hint_box") /\ Run(T_size_hint_box(Self))
Step_BoxRenderBox_render_once == At("render_once", "BoxRenderBox") /\ Run(BoxRenderBox_render_once(Self))
Step_BoxRenderBox_size_hint == At("size_hint", "BoxRenderBox") /\ Run(BoxRenderBox_size_hint(Self))
Step_BoxRenderMut_render_once == At("render_once", "BoxRenderMut") /\ Run(BoxRenderMut_render_once(Self))
Step_BoxRenderMut_size_hint == At("size_hint", "BoxRenderMut") /\ Run(BoxRenderMut_size_hint(Self))
Step_BoxRenderMut_render_mut == At("render_mut", "BoxRenderMut") /\ Run(BoxRenderMut_render_mut(Self))
Step_BoxRender_render_once == At("render_once", "BoxRender") /\ Run(BoxRender_render_once(Self))
Step_BoxRender_size_hint == At("size_hint", "BoxRender") /\ Run(BoxRender_size_hint(Self))
Step_BoxRender_render_mut == At("render_mut", "BoxRender") /\ Run(BoxRender_render_mut(Self))
Step_BoxRender_render == At("render", "BoxRender") /\ Run(BoxRender_render(Self))
Step_Renderer_render_once == At("render_once", "Renderer") /\ Run(Renderer_render_once(Self))
Step_Renderer_size_hint == At("size_hint", "Renderer") /\ Run(Renderer_size_hint(Self))
Step_Renderer_render_mut == At("render_mut", "Renderer") /\ Run(Renderer_render_mut(Self))
Step_Renderer_render == At("render", "Renderer") /\ Run(Renderer_render(Self))
Step_Display_fmt == At("fmt", "Renderer") /\ Run(Display_fmt(Self))
Step_Template_write_to_fmt == At("write_to_fmt", "Ref") /\ Run(Template_write_to_fmt(Self))
Step_Raw_render_once == At("render_once", "Raw") /\ Run(Raw_render_once(Self))
Step_Raw_size_hint == At("size_hint", "Raw") /\ Run(Raw_size_hint(Self))
Step_Raw_render_mut == At("render_mut", "Raw") /\ Run(Raw_render_mut(Self))
Step_Raw_render == At("render", "Raw") /\ Run(Raw_render(Self))
Step_str_render_once == At("render_once", "str") /\ Run(str_render_once(Self))
Step_str_size_hint == At("size_hint", "str") /\ Run(str_size_hint(Self))
Step_str_render_mut == At("render_mut", "str") /\ Run(str_render_mut(Self))
Step_str_render == At("render", "str") /\ Run(str_render(Self))
Step_String_render_once == At("render_once", "String") /\ Run(String_render_once(Self))
Step_String_size_hint == At("size_hint", "String") /\ Run(String_size_hint(Self))
Step_String_render_mut == At("render_mut", "String") /\ Run(String_render_mut(Self))
Step_String_render == At("render", "String") /\ Run(String_render(Self))

\* the closure body starts: it updates what it captured and makes its first call
Step_Closure ==
  /\ At("closure", "Renderer")
  /\ Do(Head(Closure(Top.self, count)), Tail(Closure(Top.self, count)))
  /\ count' = ClosureNext(Top.self, count)
  /\ UNCHANGED <<prod, alive, last, call, run, ncalls>>

\* a frame whose callee has returned goes on with the rest of its body
Resume ==
  /\ status = "running" /\ stack # <<>> /\ ~Top.fresh /\ Top.todo # <<>>
  /\ Run(Top.todo)

\* the renders made in a row through fresh shared references: how many, the sink
\* before the first of them and what the first one appended
NoRun == [n |-> 0, sink0 |-> NoText, o |-> NoText]

RunAfter ==
  IF call.via = "ref" /\ call.m = "render_once"
    THEN IF run.n = 0
           THEN [n |-> 1, sink0 |-> call.sink0, o |-> SubSeq(sink, Len(call.sink0) + 1, Len(sink))]
           ELSE [run EXCEPT !.n = @ + 1]
    ELSE NoRun

\* a frame whose body is finished returns to its caller
Return ==
  /\ status = "running" /\ stack # <<>> /\ ~Top.fresh /\ Top.todo = <<>>
  /\ last' = [m |-> Top.m, self |-> Top.self, out |-> SubSeq(sink, Top.base + 1, Len(sink)),
              cnt0 |-> Top.cnt0, cnt1 |-> count, ncall |-> Top.ncall, depth |-> Len(stack)]
  /\ stack' = SubSeq(stack, 1, Len(stack) - 1)
  /\ status' = IF Len(stack) = 1 THEN "idle" ELSE "running"
  /\ run' = IF Len(stack) = 1 THEN RunAfter ELSE run
  /\ UNCHANGED <<prod, alive, count, sink, ret, call, ncalls, writer, err, result>>

(* ---- the generator: the calls made on the root producer ---- *)

\* every call renders into a new builder over a working writer; the text
\* already rendered stays in the sink
Start(m, via, target) ==
  /\ status = "idle" /\ alive /\ ncalls < MaxCalls
  /\ stack' = <<Frame(m, target)>>
  /\ status' = "running"
  /\ call' = [m |-> m, via |-> via, sink0 |-> sink, count0 |-> count]
  /\ ncalls' = ncalls + 1
  /\ last' = NoLast
  /\ writer' = "ok" /\ err' = "none" /\ result' = "none"
  /\ UNCHANGED <<prod, count, sink, ret, run>>

\* the types whose values are copied, not moved, when passed by value: &str
IsCopy(p) == Kind(p) = "str"

\* prod.render_once(tmpl): the producer is moved into the call, a &str is copied
GenRenderOnce == Start("render_once", "own", prod) /\ alive' = IsCopy(prod)
\* prod.render_mut(tmpl)
GenRenderMut == "RenderMut" \in Traits(prod) /\ Start("render_mut", "own", prod) /\ UNCHANGED alive
\* prod.render(tmpl)
GenRender == "Render" \in Traits(prod) /\ Start("render", "own", prod) /\ UNCHANGED alive
\* (&prod).render_once(tmpl)
GenRefRenderOnce == "Render" \in Traits(prod) /\ Start("render_once", "ref", Borrow(prod)) /\ UNCHANGED alive
\* (&mut prod).render_once(tmpl)
GenRefMutRenderOnce == "RenderMut" \in Traits(prod) /\ Start("render_once", "refmut", BorrowMut(prod)) /\ UNCHANGED alive
\* prod.size_hint(), (&prod).size_hint(), (&mut prod).size_hint()
GenSizeHint == Start("size_hint", "own", prod) /\ UNCHANGED alive
GenRefSizeHint == "Render" \in Traits(prod) /\ Start("size_hint", "ref", Borrow(prod)) /\ UNCHANGED alive
GenRefMutSizeHint == "RenderMut" \in Traits(prod) /\ Start("size_hint", "refmut", BorrowMut(prod)) /\ UNCHANGED alive

\* write!(s, "{}", prod): Display::fmt on a read-tier Renderer
GenDisplayFmt ==
  /\ Kind(prod) = "Renderer" /\ "Render" \in Traits(prod)
  /\ Start("fmt", "own", prod) /\ UNCHANGED alive

\* the writer behind the sink stops accepting text in the middle of a render,
\* seen at the next write of a leaf
SinkBreaks ==
  /\ status = "running" /\ call.m \in {"render_once", "render_mut", "render", "fmt"} /\ writer = "ok"
  /\ stack # <<>> /\ Top.fresh /\ Kind(Top.self) \in {"Raw", "str", "String"}
  /\ writer' = "broken"
  /\ UNCHANGED <<prod, alive, count, sink, stack, status, ret, last, call, run, ncalls, err, result>>

Init ==
  /\ prod \in Roots(MaxNest)
  /\ alive = TRUE
  /\ count = 0
  /\ sink = <<>>
  /\ stack = <<>>
  /\ status = "idle"
  /\ ret = 0
  /\ last = NoLast
  /\ call = NoCall
  /\ run = NoRun
  /\ ncalls = 0
  /\ writer = "ok"
  /\ err = "none"
  /\ result = "none"

Next ==
  \/ Step_RefMut_render_once \/ Step_RefMut_size_hint
  \/ Step_Ref_render_once \/ Step_Ref_size_hint
  \/ Step_T_render_box \/ Step_T_size_hint_box
  \/ Step_BoxRenderBox_render_once \/ Step_BoxRenderBox_size_hint
  \/ Step_BoxRenderMut_render_once \/ Step_BoxRenderMut_size_hint \/ Step_BoxRenderMut_render_mut
  \/ Step_BoxRender_render_once \/ Step_BoxRender_size_hint
  \/ Step_BoxRender_render_mut \/ Step_BoxRender_render
  \/ Step_Renderer_render_once \/ Step_Renderer_size_hint
  \/ Step_Renderer_render_mut \/ Step_Renderer_render
  \/ Step_Display_fmt \/ Step_Template_write_to_fmt
  \/ Step_Raw_render_once \/ Step_Raw_size_hint \/ Step_Raw_render_mut \/ Step_Raw_render
  \/ Step_str_render_once \/ Step_str_size_hint \/ Step_str_render_mut \/ Step_str_render
  \/ Step_String_render_once \/ Step_String_size_hint \/ Step_String_render_mut \/ Step_String_render
  \/ Step_Closure \/ Resume \/ Return
  \/ GenRenderOnce \/ GenRenderMut \/ GenRender
  \/ GenRefRenderOnce \/ GenRefMutRenderOnce
  \/ GenSizeHint \/ GenRefSizeHint \/ GenRefMutSizeHint
  \/ GenDisplayFmt

Spec == Init /\ [][Next]_vars

\* the same program over a writer that may fail
NextFail == Next \/ SinkBreaks

SpecFail == Init /\ [][NextFail]_vars

(* ------------------------------ properties ----------------------------- *)

RenderMethods == {"render_once", "render_mut", "render"}
AdapterKinds == {"Ref", "RefMut"} \cup BoxKinds

\* what frame f has appended to the sink so far
OutOf(f) == SubSeq(sink, f.base + 1, Len(sink))
\* what the current call of the generator has appended so far
Out == SubSeq(sink, Len(call.sink0) + 1, Len(sink))

\* frame i has started its body
Started(i, m, k) == stack[i].m = m /\ Kind(stack[i].self) = k /\ ~stack[i].fresh
\* frame i is the running frame and its body is finished
Finished(i) == i = Len(stack) /\ status = "running" /\ ~stack[i].fresh /\ stack[i].todo = <<>>

\* frame i made exactly one call, of method m2 on target, and did nothing else:
\* the callee started where the frame started, and what the frame has appended
\* and the state it leaves are the callee's
ForwardsOnce(i, m2, target) ==
  LET f == stack[i]
  IN /\ f.ncall = 1
     /\ f.todo = <<>>
     /\ i < Len(stack) =>
          /\ stack[i + 1].m = m2
          /\ stack[i + 1].self = target
          /\ stack[i + 1].base = f.base
          /\ stack[i + 1].cnt0 = f.cnt0
     /\ Finished(i) =>
          /\ last.m = m2
          /\ last.self = target
          /\ last.depth = i + 1
          /\ last.out = OutOf(f)
          /\ last.cnt0 = f.cnt0
          /\ last.cnt1 = count

\* C1: render_once on a shared reference to a read-repeatable producer S makes
\* exactly one call of S.render, appends exactly what that call appends, and
\* leaves S unchanged and still owned by the caller.
C1_SharedRefRendersOnce ==
  /\ \A i \in DOMAIN stack :
       Started(i, "render_once", "Ref") =>
         /\ ForwardsOnce(i, "render", Deref(stack[i].self))
         /\ count = stack[i].cnt0
  /\ (status = "idle" /\ call.m = "render_once" /\ call.via = "ref") =>
       /\ alive
       /\ count = call.count0
       /\ last.m = "render_once" /\ last.self = Borrow(prod) /\ last.out = Out

C1_Witness ==
  /\ status = "idle" /\ call.m = "render_once" /\ call.via = "ref"
  /\ Out # <<>> /\ call.sink0 # <<>>

\* C2: render_once on an exclusive reference to a mutate-repeatable producer S
\* makes exactly one call of S.render_mut: the sink receives what that call
\* appends and S ends in the state that call leaves.
C2_ExclusiveRefRendersOnce ==
  /\ \A i \in DOMAIN stack :
       Started(i, "render_once", "RefMut") =>
         ForwardsOnce(i, "render_mut", Deref(stack[i].self))
  /\ (status = "idle" /\ call.m = "render_once" /\ call.via = "refmut") =>
       /\ alive
       /\ last.m = "render_once" /\ last.self = BorrowMut(prod) /\ last.out = Out
       /\ last.cnt1 = count
       /\ Head(prod).fn = "Count" => (count = call.count0 + 1 /\ Out = <<Digit(call.count0)>>)

C2_Witness ==
  /\ status = "idle" /\ call.m = "render_once" /\ call.via = "refmut"
  /\ Head(prod).fn = "Count" /\ call.count0 = 1 /\ count = 2 /\ Out = <<"1">>

\* C3: every render method of every Box handle forwards to the producer in the
\* box: it makes exactly one call, on the boxed producer, and appends exactly
\* what that call appends.
C3_HandleForwardsToBoxed ==
  \A i \in DOMAIN stack :
    /\ Started(i, "render_once", "BoxRenderBox") => ForwardsOnce(i, "render_box", Deref(stack[i].self))
    /\ Started(i, "render_once", "BoxRenderMut") => ForwardsOnce(i, "render_mut", Deref(stack[i].self))
    /\ Started(i, "render_mut", "BoxRenderMut") => ForwardsOnce(i, "render_mut", Deref(stack[i].self))
    /\ Started(i, "render_once", "BoxRender") => ForwardsOnce(i, "render", Deref(stack[i].self))
    /\ Started(i, "render_mut", "BoxRender") => ForwardsOnce(i, "render", Deref(stack[i].self))
    /\ Started(i, "render", "BoxRender") => ForwardsOnce(i, "render", Deref(stack[i].self))

\* C8: every render_mut on a Box<RenderMut> handle, and the final render_once,
\* is one render_mut of the boxed producer: when the call is over the boxed
\* counting closure has been called once more and its text is in the sink.
C8_MutHandleRepeats ==
  /\ \A i \in DOMAIN stack :
       (stack[i].m \in {"render_mut", "render_once"} /\ Kind(stack[i].self) = "BoxRenderMut"
        /\ ~stack[i].fresh) =>
         ForwardsOnce(i, "render_mut", Deref(stack[i].self))
  /\ (/\ Kind(prod) = "BoxRenderMut" /\ Head(Deref(prod)).fn = "Count"
      /\ call.via = "own" /\ call.m \in {"render_mut", "render_once"}
      /\ status # "running") =>
       /\ status = "idle"
       /\ count = call.count0 + 1
       /\ Out = <<Digit(call.count0)>>

\* C9: rendering is total: a render method of a reference or Box adapter calls
\* only a producer strictly inside its own, so every call chain is finite and
\* no call is left unfinished.
C9_RenderingIsTotal ==
  /\ \A i \in 1..(Len(stack) - 1) :
       (stack[i].m \in RenderMethods /\ Kind(stack[i].self) \in AdapterKinds) =>
         Len(stack[i + 1].self) < Len(stack[i].self)
  /\ call.m \in RenderMethods => status # "overflow"

\* what the closure of Renderer r appends when called in state n
ClosureOut(r, n) ==
  CASE Head(r).fn = "Count" -> <<Digit(n)>>
    [] Head(r).fn = "Twice" -> Escape(Head(r).text) \o Escape(Head(r).text)
    [] OTHER -> Escape(Head(r).text)

RECURSIVE Rep(_, _)
Rep(o, n) == IF n = 0 THEN <<>> ELSE o \o Rep(o, n - 1)

\* C4: whichever render method is used, Raw(t) appends t verbatim and the plain
\* string t (&str or String) appends the escaped form of t: "<b>" stays "<b>"
\* through Raw and becomes "&lt;b&gt;" as a plain string, and text that is
\* already escaped is escaped again as a plain string.
C4_RawVerbatimStringEscaped ==
  \A i \in DOMAIN stack :
    LET f == stack[i]
        t == Head(f.self).text
    IN (f.m \in RenderMethods /\ ~f.fresh /\ Kind(f.self) \in {"Raw", "str", "String"}) =>
         /\ f.todo = <<>> /\ f.ncall = 0
         /\ Kind(f.self) = "Raw" => OutOf(f) = t
         /\ Kind(f.self) \in {"str", "String"} =>
              /\ OutOf(f) = Escape(t)
              /\ t = BoldTag => OutOf(f) = <<"&", "l", "t", ";", "b", "&", "g", "t", ";">>
              /\ t = <<"&", "l", "t", ";">> => OutOf(f) = <<"&", "a", "m", "p", ";", "l", "t", ";">>
              /\ (\E j \in DOMAIN t : t[j] \in {"&", "<", ">", "\""}) => OutOf(f) # t

C4_Witness ==
  /\ status = "running" /\ stack # <<>> /\ ~Top.fresh
  /\ Top.m = "render_mut" /\ Kind(Top.self) = "String"
  /\ Head(Top.self).text = <<"&", "l", "t", ";">>
  /\ OutOf(Top) = <<"&", "a", "m", "p", ";", "l", "t", ";">>
  /\ Top.base > 0

\* C5: n renders in a row of a read-repeatable producer through fresh shared
\* references leave the sink holding what it held before followed by n copies of
\* what one render appends; a closure that embeds a sub-template twice by
\* reference appends the sub-template's text twice.
C5_RepeatedRenderConcatenates ==
  /\ (status = "idle" /\ run.n >= 1) => sink = run.sink0 \o Rep(run.o, run.n)
  /\ \A i \in DOMAIN stack :
       (Started(i, "closure", "Renderer") /\ Head(stack[i].self).fn = "Twice" /\ Finished(i)) =>
         OutOf(stack[i]) = Escape(Head(stack[i].self).text) \o Escape(Head(stack[i].self).text)

C5_Witness ==
  /\ status = "idle" /\ run.n = 2 /\ run.o # <<>> /\ run.sink0 # <<>>
  /\ sink = run.sink0 \o run.o \o run.o

\* C6: every render method of a Renderer calls the stored closure exactly once
\* and does nothing else, so a Renderer over a pure closure appends the same
\* text on every render, whatever was rendered before.
C6_PureRendererRepeats ==
  /\ \A i \in DOMAIN stack :
       (stack[i].m \in RenderMethods /\ Kind(stack[i].self) = "Renderer" /\ ~stack[i].fresh) =>
         ForwardsOnce(i, "closure", stack[i].self)
  /\ (/\ status = "idle" /\ Kind(prod) = "Renderer" /\ Head(prod).fn \in {"Lit", "Twice"}
      /\ call.m \in RenderMethods) =>
       /\ Out = ClosureOut(prod, 0)
       /\ run.n >= 1 => run.o = Out

C6_Witness ==
  /\ status = "idle" /\ Kind(prod) = "Renderer" /\ Head(prod).fn = "Lit"
  /\ run.n = 2 /\ run.o = Out /\ Out # <<>>

\* C7: the size hint is advisory: a size_hint call, on the producer or through a
\* reference or a handle, changes neither the sink nor the producer; size_hint
\* of a Renderer is the stored expected_size; and what a Renderer appends is
\* decided by its closure alone, whatever its expected_size.
C7_SizeHintIsAdvisory ==
  /\ call.m = "size_hint" => (sink = call.sink0 /\ count = call.count0 /\ alive)
  /\ \A i \in DOMAIN stack :
       /\ Started(i, "size_hint", "Renderer") => ret = Head(stack[i].self).expected_size
       /\ (stack[i].m \in RenderMethods /\ Kind(stack[i].self) = "Renderer" /\ Finished(i)) =>
            OutOf(stack[i]) = ClosureOut(stack[i].self, stack[i].cnt0)
  /\ (status = "idle" /\ call.m = "size_hint" /\ Kind(prod) = "Renderer") =>
       ret = Head(prod).expected_size

C7_Witness ==
  /\ status = "idle" /\ call.m = "size_hint" /\ call.via = "ref"
  /\ Kind(prod) = "Renderer" /\ Head(prod).expected_size = 1 /\ ret = 1
  /\ sink # <<>>

\* C10: a failure the writer behind the sink signals on a write is never lost:
\* it stays recorded while every enclosing render call returns, the leaf that
\* wrote makes that one write and nothing more, and Display::fmt returns Err
\* exactly when a write failed.
C10_FailurePropagates ==
  /\ writer = "failed" => err = "Err"
  /\ \A i \in DOMAIN stack :
       (stack[i].m \in RenderMethods /\ Kind(stack[i].self) \in {"Raw", "str", "String"}
        /\ ~stack[i].fresh) =>
         (stack[i].todo = <<>> /\ stack[i].ncall = 0)
  /\ (status = "idle" /\ call.m = "fmt") =>
       result = (IF writer = "failed" THEN "Err" ELSE "Ok")

C10_Witness ==
  /\ status = "idle" /\ call.m = "fmt"
  /\ writer = "failed" /\ result = "Err" /\ Out # <<>>

====
